---- MODULE Spec2Model ----
(***************************************************************************)
(* Model of the chess position core of src/src/board.rs: the notation      *)
(* codec (from_fen), the move application (apply_move) and the move        *)
(* generators (sliding, knight, king, pawn, get_all_moves,                 *)
(* get_legal_moves).  Indices are 0-based as in the source; TLA+ sequences *)
(* are 1-based, so squares[i] of the source is squares[i] of a function    *)
(* over 0..63 and a Vec position p is position p + 1 of a sequence.        *)
(***************************************************************************)
EXTENDS Integers, Sequences, FiniteSets, TLC

\* ------------------------------------------------------------------------
\* Bounds of the exploration
\* ------------------------------------------------------------------------
\* Number of apply_move calls explored from one parsed board.
MaxPly == 6

\* ------------------------------------------------------------------------
\* Types (board.rs 11-84)
\* ------------------------------------------------------------------------
Color == {"White", "Black"}

PieceType == {"Empty", "Pawn", "Rook", "Knight", "Bishop", "Queen", "King"}

GameResult == {"Active", "Draw50Moves"}

Height == 8

Width == 8

NumSquares == Height * Width

Idx == 0 .. (NumSquares - 1)

\* Square::default(): #[default] White, #[default] Empty
SquareDefault == [color |-> "White", piece |-> "Empty"]

\* impl Default for MoveOp
MoveOpDefault ==
    [from |-> 0, to |-> 0, is_enpassant |-> FALSE, is_castle |-> FALSE,
     set_enpassant |-> <<FALSE, 0>>, promote |-> "Empty"]

\* impl Default for Board.  piece_map is HashMap::new(): no key at all.
\* A missing key is modelled by the empty domain of the function.
BoardDefault ==
    [squares |-> [i \in Idx |-> SquareDefault],
     piece_map |-> [k \in {} |-> <<>>],
     to_play |-> "White",
     castling |-> <<<<FALSE, FALSE>>, <<FALSE, FALSE>>>>,
     en_passant |-> <<FALSE, 0>>,
     halfmove_clock |-> 0,
     fullmove_number |-> 0,
     result |-> "Active"]

\* Width of the u16 counters halfmove_clock and fullmove_number.
U16 == 65536

\* Width of the u8 bytes alg_to_index subtracts from.
U8 == 256

\* The two arithmetic-overflow behaviours a Rust build can have: a debug
\* build panics on overflow, a release build wraps.
Builds == {"debug", "release"}

\* ------------------------------------------------------------------------
\* Small helpers
\* ------------------------------------------------------------------------
\* Vec::remove(p) with a 0-based position p.
VecRemove(v, p) ==
    [j \in 1 .. (Len(v) - 1) |-> IF j <= p THEN v[j] ELSE v[j + 1]]

\* get_table_index: the 0-based position of the first element equal to
\* val; -1 stands for the None arm, which panics.
get_table_index(table, val) ==
    IF \E j \in 1 .. Len(table) : table[j] = val
    THEN (CHOOSE j \in 1 .. Len(table) :
              /\ table[j] = val
              /\ \A h \in 1 .. (j - 1) : table[h] # val) - 1
    ELSE -1

\* `x as usize` of an i16 value x followed by a comparison with the board
\* size or an index: a negative x becomes a huge usize, never a valid index.
AsUsizeInBoard(x) == x >= 0 /\ x < NumSquares

\* search_piece: indices holding piece kind p, in ascending order.
RECURSIVE search_from(_, _, _)
search_from(squares, p, i) ==
    IF i >= NumSquares THEN <<>>
    ELSE IF squares[i].piece = p
         THEN <<i>> \o search_from(squares, p, i + 1)
         ELSE search_from(squares, p, i + 1)

\* A scan that starts at index 1.
search_piece_skip_first(self, p) == search_from(self.squares, p, 1)

search_piece(self, p) == search_from(self.squares, p, 0)

\* populate_map: rebuilds the six tables by a full scan.
populate_map(self) ==
    [self EXCEPT !.piece_map =
        [k \in {"King", "Queen", "Bishop", "Knight", "Rook", "Pawn"} |->
            search_piece(self, k)]]

\* get_table / get_mut_table: the lookup panics when the key is missing.
has_table(self, p) == p \in DOMAIN self.piece_map

\* The table of kind p without the color filter.
get_table_uncolored(self, p, c) == self.piece_map[p]

\* get_table_colored: the table of kind p filtered by the color field of
\* the square each index points at.
get_table_colored(self, p, c) ==
    SelectSeq(self.piece_map[p], LAMBDA m : self.squares[m].color = c)

\* ------------------------------------------------------------------------
\* Notation codec (board.rs 157-268)
\* ------------------------------------------------------------------------
\* A notation string is given by its whitespace-separated fields, each a
\* sequence of one-character strings.  The expression FEN_EXP is anchored at
\* the start only and separates its six groups by \s+, and no group can
\* match whitespace, so each group is matched against one field.

\* The byte value of a character ([\-a-h1-8] and the digits).
Ord(c) ==
    CASE c = "-" -> 45
      [] c = "0" -> 48 [] c = "1" -> 49 [] c = "2" -> 50 [] c = "3" -> 51
      [] c = "4" -> 52 [] c = "5" -> 53 [] c = "6" -> 54 [] c = "7" -> 55
      [] c = "8" -> 56 [] c = "9" -> 57
      [] c = "a" -> 97 [] c = "b" -> 98 [] c = "c" -> 99 [] c = "d" -> 100
      [] c = "e" -> 101 [] c = "f" -> 102 [] c = "g" -> 103 [] c = "h" -> 104

Digits == {"0", "1", "2", "3", "4", "5", "6", "7", "8", "9"}

\* The class [rnbqkpRNBQKP1-8] of group 1.
PlacementClass ==
    {"r", "n", "b", "q", "k", "p", "R", "N", "B", "Q", "K", "P",
     "1", "2", "3", "4", "5", "6", "7", "8"}

UpperLetters == {"R", "N", "B", "Q", "K", "P"}

\* piececharmap, applied to the upper-cased letter.
piececharmap(c) ==
    CASE c \in {"P", "p"} -> "Pawn"
      [] c \in {"R", "r"} -> "Rook"
      [] c \in {"N", "n"} -> "Knight"
      [] c \in {"B", "b"} -> "Bishop"
      [] c \in {"Q", "q"} -> "Queen"
      [] c \in {"K", "k"} -> "King"
      [] OTHER -> "Empty"

\* Group 1, (?:[rnbqkpRNBQKP1-8]+/?){8}: the field splits into exactly
\* eight chunks, each one or more class characters and an optional slash.
\* A slash can only follow a class character; the fewest chunks is the
\* number of slash-free runs and the most is the number of class characters.
PlacementMatches(f) ==
    LET n == Cardinality({j \in 1 .. Len(f) : f[j] \in PlacementClass})
        runs == Cardinality({j \in 1 .. Len(f) :
                    /\ f[j] \in PlacementClass
                    /\ (j = Len(f) \/ f[j + 1] = "/")})
    IN /\ Len(f) >= 1
       /\ \A j \in 1 .. Len(f) : f[j] \in PlacementClass \cup {"/"}
       /\ f[1] # "/"
       /\ \A j \in 2 .. Len(f) : f[j] = "/" => f[j - 1] # "/"
       /\ runs <= 8
       /\ 8 <= n

\* The whole expression: groups 2-5 are matched against a whole field;
\* group 6, a single \d with nothing after it in the expression, matches
\* the first character of the last field.
FenMatches(fen) ==
    /\ PlacementMatches(fen.placement)
    /\ fen.toplay \in {<<"w">>, <<"b">>}
    /\ Len(fen.castling) >= 1
    /\ \A j \in 1 .. Len(fen.castling) : fen.castling[j] \in {"K", "Q", "k", "q", "-"}
    /\ Len(fen.en_passant) >= 1
    /\ \A j \in 1 .. Len(fen.en_passant) :
           fen.en_passant[j] \in {"-", "a", "b", "c", "d", "e", "f", "g", "h",
                                  "1", "2", "3", "4", "5", "6", "7", "8"}
    /\ Len(fen.halfmove) = 1
    /\ fen.halfmove[1] \in Digits
    /\ Len(fen.fullmove) >= 1
    /\ fen.fullmove[1] \in Digits

\* alg_to_index: (byte 0 - 48) is used as the file and (byte 1 - 48) as the
\* rank.  The result is [index, panic]: a one-byte field panics on the
\* second read, and a byte below 48 underflows the u8 subtraction.
alg_to_index(alg_notation, bld) ==
    IF Len(alg_notation) < 2 THEN [index |-> 0, panic |-> TRUE]
    ELSE LET b0 == Ord(alg_notation[1])
             b1 == Ord(alg_notation[2])
             file == (b0 - 48) % U8
             rank == (b1 - 48) % U8
         IN IF bld = "debug" /\ (b0 < 48 \/ b1 < 48)
            THEN [index |-> 0, panic |-> TRUE]
            ELSE [index |-> rank * Width + file, panic |-> FALSE]

\* The placement loop (194-229): board_index runs through the characters of
\* all ranks; a digit writes that many default squares, a letter one piece.
\* The state is [squares, board_index, panic]; a write at an index outside
\* the 64 squares panics.
RECURSIVE place_chars(_, _, _)
place_chars(f, j, st) ==
    IF j > Len(f) \/ st.panic THEN st
    ELSE LET c == f[j] IN
         IF c = "/" THEN place_chars(f, j + 1, st)
         ELSE IF c \in Digits
         THEN LET n == Ord(c) - 48
                  over == st.board_index + n > NumSquares
                  last == IF over THEN NumSquares ELSE st.board_index + n
              IN place_chars(f, j + 1,
                    [squares |-> [i \in Idx |->
                        IF i >= st.board_index /\ i < last
                        THEN SquareDefault ELSE st.squares[i]],
                     board_index |-> last,
                     panic |-> over])
         ELSE IF st.board_index >= NumSquares
         THEN [st EXCEPT !.panic = TRUE]
         ELSE place_chars(f, j + 1,
                    [squares |-> [st.squares EXCEPT ![st.board_index] =
                        [piece |-> piececharmap(c),
                         color |-> IF c \in UpperLetters THEN "White" ELSE "Black"]],
                     board_index |-> st.board_index + 1,
                     panic |-> FALSE])

\* from_fen: [status, board] with status "ok" (Ok(board)), "err" (Err(1))
\* or "panic".
from_fen(fen, bld) ==
    IF ~FenMatches(fen) THEN [status |-> "err", board |-> BoardDefault]
    ELSE
    LET placed == place_chars(fen.placement, 1,
                     [squares |-> BoardDefault.squares, board_index |-> 0,
                      panic |-> FALSE])
    IN IF placed.panic THEN [status |-> "panic", board |-> BoardDefault]
    ELSE
    LET has(c) == \E j \in 1 .. Len(fen.castling) : fen.castling[j] = c
        ep == IF fen.en_passant # <<"-">>
              THEN alg_to_index(fen.en_passant, bld)
              ELSE [index |-> 0, panic |-> FALSE]
        b1 == populate_map([BoardDefault EXCEPT !.squares = placed.squares])
        b2 == [b1 EXCEPT
                 !.to_play = IF fen.toplay = <<"w">> THEN "White" ELSE "Black",
                 !.castling = <<<<has("K"), has("Q")>>, <<has("k"), has("q")>>>>,
                 !.halfmove_clock = Ord(fen.halfmove[1]) - 48,
                 !.fullmove_number = Ord(fen.fullmove[1]) - 48,
                 !.en_passant = IF fen.en_passant # <<"-">>
                                THEN <<TRUE, ep.index>> ELSE <<FALSE, 0>>,
                 !.result = "Active"]
    IN IF ep.panic THEN [status |-> "panic", board |-> BoardDefault]
       ELSE [status |-> "ok", board |-> b2]

\* ------------------------------------------------------------------------
\* Move application (board.rs 321-431)
\* ------------------------------------------------------------------------
\* The result of a call that can panic: the board as the call left it and
\* whether it panicked.
Done(b) == [board |-> b, panic |-> FALSE]

Panicked(b) == [board |-> b, panic |-> TRUE]

Opposite(c) == IF c = "White" THEN "Black" ELSE "White"

\* Lines 402-411: the fifty-move counter.  from_index is the position of
\* the moved piece in its table, and the square read is squares[from_index].
\* The u16 decrement of a clock at 0 panics in a debug build and wraps in a
\* release build.
fifty_move_step(self, capture, from_index, bld) ==
    IF capture \/ self.squares[from_index].piece = "Pawn"
    THEN Done([self EXCEPT !.halfmove_clock = 50])
    ELSE IF self.halfmove_clock = 0 /\ bld = "debug"
    THEN Panicked(self)
    ELSE LET c == (self.halfmove_clock - 1) % U16
         IN Done([self EXCEPT !.halfmove_clock = c,
                              !.result = IF c = 0 THEN "Draw50Moves" ELSE @])

\* Lines 413-423: the relocation on squares, the turn flip and the
\* fullmove counter.
relocate_and_flip(self, moveop, bld) ==
    LET sq1 == [self.squares EXCEPT ![moveop.to] = self.squares[moveop.from]]
        sq2 == [sq1 EXCEPT ![moveop.from].piece = "Empty"]
        tp == Opposite(self.to_play)
        s1 == [self EXCEPT !.squares = sq2, !.to_play = tp]
    IN IF tp = "White"
       THEN IF self.fullmove_number = U16 - 1 /\ bld = "debug"
            THEN Panicked(s1)
            ELSE Done([s1 EXCEPT !.fullmove_number = (@ + 1) % U16])
       ELSE Done(s1)

\* Lines 361-400: castling rights and the castle itself.  The piece kind and
\* the color are read from squares[from_index], from_index being the table
\* position.  A castle applies the rook's move by a nested apply_move,
\* turn flip and counters included.
RECURSIVE apply_move(_, _, _)
castling_step(self, moveop, from_index, bld) ==
    IF self.squares[from_index].piece = "Rook"
    THEN LET white == self.squares[from_index].color = "White"
             castle == IF white THEN self.castling[1] ELSE self.castling[2]
             updated == IF castle[1] /\ (from_index % Width = Width - 1)
                        THEN <<FALSE, castle[2]>>
                        ELSE IF castle[2] /\ (from_index % Width = 0)
                        THEN <<castle[1], FALSE>>
                        ELSE castle
         IN Done([self EXCEPT !.castling =
                    IF white THEN <<updated, @[2]>> ELSE <<@[1], updated>>])
    ELSE IF self.squares[from_index].piece = "King"
    THEN LET queen_side == moveop.from - moveop.to > 0
             castle_from_index == IF queen_side THEN moveop.from - 4
                                                ELSE moveop.from + 3
             castle_to_index == IF queen_side THEN moveop.to + 1
                                              ELSE moveop.to - 1
             inner == IF ~moveop.is_castle THEN Done(self)
                      ELSE IF castle_from_index \notin Idx
                      THEN Panicked(self)
                      ELSE apply_move(self,
                               [MoveOpDefault EXCEPT !.from = castle_from_index,
                                                     !.to = castle_to_index],
                               bld)
             s1 == inner.board
         IN IF inner.panic THEN inner
            ELSE IF s1.squares[from_index].color = "White"
            THEN Done([s1 EXCEPT !.castling[1] = <<FALSE, FALSE>>])
            ELSE Done([s1 EXCEPT !.castling[2] = <<FALSE, FALSE>>])
    ELSE Done(self)

\* Lines 339-353: the en-passant capture.  The backwards direction is taken
\* from the color of squares[from_index]; the captured pawn leaves the Pawn
\* table only.
enpassant_step(self, moveop, from_index) ==
    IF ~moveop.is_enpassant THEN Done(self)
    ELSE LET backwards_dir == IF self.squares[from_index].color = "White"
                              THEN 1 ELSE -1
             target_pawn_index == moveop.to + backwards_dir * Width
             to_index == get_table_index(self.piece_map["Pawn"], target_pawn_index)
         IN IF to_index < 0 THEN Panicked(self)
            ELSE Done([self EXCEPT !.piece_map["Pawn"] = VecRemove(@, to_index)])

\* Lines 355-359 with the else arm left out: a target is set by a flagged
\* move and otherwise kept.
set_enpassant_step_keep(self, moveop) ==
    IF moveop.set_enpassant[1]
    THEN [self EXCEPT !.en_passant = <<TRUE, moveop.set_enpassant[2]>>]
    ELSE self

\* Lines 355-359: the en-passant target is set by a flagged move and reset
\* by every other move.
set_enpassant_step(self, moveop) ==
    [self EXCEPT !.en_passant =
        IF moveop.set_enpassant[1]
        THEN <<TRUE, moveop.set_enpassant[2]>>
        ELSE <<FALSE, 0>>]

\* apply_move (321-424).
apply_move(self, moveop, bld) ==
    IF moveop.from \notin Idx THEN Panicked(self)
    ELSE
    LET from_piece == self.squares[moveop.from].piece IN
    IF ~has_table(self, from_piece) THEN Panicked(self)
    ELSE
    LET from_index == get_table_index(self.piece_map[from_piece], moveop.from) IN
    IF from_index < 0 THEN Panicked(self)
    ELSE
    LET s1 == [self EXCEPT !.piece_map[from_piece][from_index + 1] = moveop.to] IN
    IF moveop.to \notin Idx THEN Panicked(s1)
    ELSE
    LET to_piece == s1.squares[moveop.to].piece
        ordinary == to_piece # "Empty"
        to_index == IF ordinary
                    THEN get_table_index(s1.piece_map[to_piece], moveop.to)
                    ELSE 0
    IN
    IF to_index < 0 THEN Panicked(s1)
    ELSE
    LET s2 == IF ordinary
              THEN [s1 EXCEPT !.piece_map[to_piece] = VecRemove(@, to_index)]
              ELSE s1
        r3 == enpassant_step(s2, moveop, from_index)
    IN
    IF r3.panic THEN r3
    ELSE
    LET capture == ordinary \/ moveop.is_enpassant
        s4 == set_enpassant_step(r3.board, moveop)
        r5 == castling_step(s4, moveop, from_index, bld)
    IN
    IF r5.panic THEN r5
    ELSE
    LET r6 == fifty_move_step(r5.board, capture, from_index, bld) IN
    IF r6.panic THEN r6
    ELSE relocate_and_flip(r6.board, moveop, bld)

\* The heap-allocated fields of a Board are squares (75), a Vec, and
\* piece_map (77), a HashMap of Vecs; every other field is a Copy value.

\* A clone that copies the piece_map handle instead of its storage.
clone_aliased(self) == [board |-> self, aliased |-> {"piece_map"}]

\* self.clone() of #[derive(Clone)] Board (73-84): the copy, and the set of
\* heap fields whose storage the copy shares with the original.  Vec::clone
\* and HashMap::clone allocate new storage, so the set is empty.
clone(self) == [board |-> self, aliased |-> {}]

\* What the original holds after its copy became `child`: a field whose
\* storage is shared shows the copy's contents.
write_through(self, child, aliased) ==
    [self EXCEPT
        !.squares = IF "squares" \in aliased THEN child.squares ELSE @,
        !.piece_map = IF "piece_map" \in aliased THEN child.piece_map ELSE @]

\* Line 430: `board` is the returned child, r what child.apply_move left;
\* `receiver` is self after the call.
nomut_return(self, aliased, r) ==
    [board |-> r.board, panic |-> r.panic, aliased |-> aliased,
     receiver |-> write_through(self, r.board, aliased)]

\* apply_move_nomut (426-431): the move applied to a clone.
apply_move_nomut(self, moveop, bld) ==
    nomut_return(self, clone(self).aliased,
                 apply_move(clone(self).board, moveop, bld))

\* ------------------------------------------------------------------------
\* Move generation (board.rs 433-688)
\* ------------------------------------------------------------------------
\* A generator returns [moves, status]: the Vec it built and "ok" when it
\* returned, "panic" when it panicked, "diverge" when a loop of it never
\* ends.
Ok(ms) == [moves |-> ms, status |-> "ok"]

Fail(st) == [moves |-> <<>>, status |-> st]

\* The results of consecutive calls appended in order, up to the first call
\* that does not return.
RECURSIVE Chain(_, _, _)
Chain(rs, j, acc) ==
    IF j > Len(rs) THEN Ok(acc)
    ELSE IF rs[j].status # "ok" THEN [moves |-> acc, status |-> rs[j].status]
    ELSE Chain(rs, j + 1, acc \o rs[j].moves)

\* t - (t & 0x7ff8) for an i16 value t: the low three bits of t, minus
\* 2^15 when t is negative (the mask keeps bits 3..14 and drops the sign).
LowBits16(t) == IF t >= 0 THEN t % 8 ELSE (t % 8) - 32768

InI16(x) == x >= -32768 /\ x <= 32767

Wrap16(x) == ((x + 32768) % U16) - 32768

Abs(x) == IF x < 0 THEN -x ELSE x

rook_incs == <<8, -8, 1, -1>>

bishop_incs == <<9, 7, -7, -9>>

\* Lines 459-488: the loop of one direction, from the loop state
\* (index, eob_flag).  Every pass that does not break ends with index = 0;
\* `seen` holds the loop states already passed through, and a pass that
\* comes back to one of them never ends.
RECURSIVE ray_loop(_, _, _, _, _, _)
ray_loop(self, start_index, inc, index, eob_flag, seen) ==
    LET index1 == index + inc
        t == start_index + index1
    IN
    IF ~AsUsizeInBoard(t) \/ eob_flag THEN Ok(<<>>)
    ELSE
    LET eob1 == eob_flag \/ t % Width = 0 \/ t % Width = Width - 1
        target == self.squares[t]
        start_sq == self.squares[start_index]
    IN
    IF target.color = start_sq.color THEN Ok(<<>>)
    ELSE IF target.color # start_sq.color /\ target.piece # "Empty"
    THEN Ok(<<[MoveOpDefault EXCEPT !.from = start_index, !.to = t]>>)
    ELSE IF <<0, eob1>> \in seen THEN Fail("diverge")
    ELSE ray_loop(self, start_index, inc, 0, eob1, seen \cup {<<0, eob1>>})

\* get_sliding_moves_single (433-493).
get_sliding_moves_single(self, piece, start_index) ==
    LET incs == IF piece = "Rook" THEN rook_incs
                ELSE IF piece = "Bishop" THEN bishop_incs
                ELSE IF piece = "Queen" THEN rook_incs \o bishop_incs
                ELSE <<>>
    IN Chain([j \in 1 .. Len(incs) |->
                 ray_loop(self, start_index, incs[j], 0, FALSE, {<<0, FALSE>>})],
             1, <<>>)

\* get_sliding_moves (495-505).
get_sliding_moves(self, piece) ==
    LET indices == get_table_colored(self, piece, self.to_play)
    IN Chain([j \in 1 .. Len(indices) |->
                 get_sliding_moves_single(self, piece, indices[j])],
             1, <<>>)

knight_incs == <<-10, -6, -17, -15, 6, 10, 16, 17>>

\* One offset of one knight without the test of the target's color.
knight_target_any_color(self, start_index, inc, bld) ==
    LET loc1 == LowBits16(start_index)
        t == start_index + inc
        raw_shift == LowBits16(t) - loc1
        dist_closest_edge == IF loc1 < 4 THEN loc1 ELSE 8 - loc1
    IN
    IF ~InI16(raw_shift) /\ bld = "debug" THEN Fail("panic")
    ELSE IF ~AsUsizeInBoard(t) \/ Abs(Wrap16(raw_shift)) > dist_closest_edge
    THEN Ok(<<>>)
    ELSE Ok(<<[MoveOpDefault EXCEPT !.from = start_index, !.to = t]>>)

\* Lines 516-543: one offset of one knight.  The i16 subtraction of the two
\* columns overflows when the target is negative and its low bits are below
\* the knight's column.
knight_target(self, start_index, inc, bld) ==
    LET loc1 == LowBits16(start_index)
        t == start_index + inc
        target_loc1 == LowBits16(t)
        raw_shift == target_loc1 - loc1
        index_horiz_shift == Wrap16(raw_shift)
        dist_closest_edge == IF loc1 < 4 THEN loc1 ELSE 8 - loc1
    IN
    IF ~InI16(raw_shift) /\ bld = "debug" THEN Fail("panic")
    ELSE IF ~AsUsizeInBoard(t) \/ Abs(index_horiz_shift) > dist_closest_edge
    THEN Ok(<<>>)
    ELSE IF self.squares[t].color = self.squares[start_index].color
    THEN Ok(<<>>)
    ELSE Ok(<<[MoveOpDefault EXCEPT !.from = start_index, !.to = t]>>)

\* get_knight_moves_single (507-546).
get_knight_moves_single(self, start_index, bld) ==
    Chain([j \in 1 .. Len(knight_incs) |->
              knight_target(self, start_index, knight_incs[j], bld)],
          1, <<>>)

\* get_knight_moves (548-557).
get_knight_moves(self, bld) ==
    LET indices == get_table_colored(self, "Knight", self.to_play)
    IN Chain([j \in 1 .. Len(indices) |->
                 get_knight_moves_single(self, indices[j], bld)],
             1, <<>>)

king_incs == <<-9, -8, -7, -1, 1, 7, 8, 9>>

\* Lines 566-587: one offset of one king.  Both columns, target_loc.1 and
\* loc.1, are computed from target_index.
king_target(self, start_index, inc) ==
    LET t == start_index + inc
        target_loc1 == LowBits16(t)
        loc1 == LowBits16(t)
    IN
    IF Abs(target_loc1 - loc1) > 1 \/ ~AsUsizeInBoard(t) THEN Ok(<<>>)
    ELSE IF self.squares[t].color = self.squares[start_index].color
    THEN Ok(<<>>)
    ELSE Ok(<<[MoveOpDefault EXCEPT !.from = start_index, !.to = t]>>)

\* get_king_moves (559-591).
get_king_moves(self) ==
    LET indices == get_table_colored(self, "King", self.to_play)
    IN Chain([j \in 1 .. (Len(indices) * Len(king_incs)) |->
                 king_target(self,
                     indices[((j - 1) \div Len(king_incs)) + 1],
                     king_incs[((j - 1) % Len(king_incs)) + 1])],
             1, <<>>)

\* start_index + (off as usize) for an i16 offset off: a negative offset
\* becomes 2^64 + off, so the usize addition overflows exactly when the
\* mathematical sum is not negative (a debug build panics, a release build
\* wraps to the sum); when the sum is negative nothing overflows and the
\* value is a huge index, written -1 here, outside every board.
usize_add(start_index, off, bld) ==
    IF off >= 0 THEN [val |-> start_index + off, panic |-> FALSE]
    ELSE IF start_index + off >= 0
    THEN [val |-> start_index + off, panic |-> bld = "debug"]
    ELSE [val |-> -1, panic |-> FALSE]

\* Lines 632-649: the two moves one attack index can give.
pawn_attack(self, start_index, index, c) ==
    IF index \notin Idx THEN Fail("panic")
    ELSE Ok((IF self.squares[index].piece # "Empty" /\ self.squares[index].color # c
             THEN <<[MoveOpDefault EXCEPT !.from = start_index, !.to = index]>>
             ELSE <<>>)
            \o
            (IF self.en_passant[1] /\ index = self.en_passant[2]
             THEN <<[MoveOpDefault EXCEPT !.from = start_index, !.to = index,
                                          !.is_enpassant = TRUE]>>
             ELSE <<>>))

\* get_pawn_moves_single (593-652).
get_pawn_moves_single(self, start_index, c, bld) ==
    LET direction == IF c = "White" THEN -1 ELSE 1
        a1 == usize_add(start_index, direction * Width, bld)
        advance1 == a1.val
    IN
    IF a1.panic \/ advance1 \notin Idx THEN Fail("panic")
    ELSE
    LET a2 == usize_add(start_index, 2 * direction * Width, bld)
        advance2 == a2.val
        open1 == self.squares[advance1].piece = "Empty"
    IN
    IF open1 /\ (a2.panic \/ advance2 \notin Idx) THEN Fail("panic")
    ELSE
    LET advances ==
            IF ~open1 THEN <<>>
            ELSE <<[MoveOpDefault EXCEPT !.from = start_index, !.to = advance1]>>
                 \o (IF self.squares[advance2].piece = "Empty"
                     THEN <<[MoveOpDefault EXCEPT
                               !.from = start_index, !.to = advance2,
                               !.set_enpassant = <<TRUE, advance1>>]>>
                     ELSE <<>>)
        attack_indices ==
            (IF start_index % Width # 0 THEN <<advance1 - 1>> ELSE <<>>)
            \o (IF start_index % Width # Width - 1 THEN <<advance1 + 1>> ELSE <<>>)
    IN Chain(<<Ok(advances)>>
             \o [j \in 1 .. Len(attack_indices) |->
                    pawn_attack(self, start_index, attack_indices[j], c)],
             1, <<>>)

\* get_pawn_moves (654-662).
get_pawn_moves(self, bld) ==
    LET indices == get_table_colored(self, "Pawn", self.to_play)
    IN Chain([j \in 1 .. Len(indices) |->
                 get_pawn_moves_single(self, indices[j], self.to_play, bld)],
             1, <<>>)

\* get_all_moves (665-674): king, queen, bishop, rook and knight moves, in
\* that order; the pawn generator is not called.
get_all_moves(self, bld) ==
    LET rk == get_king_moves(self) IN
    IF rk.status # "ok" THEN rk
    ELSE
    LET rq == get_sliding_moves(self, "Queen") IN
    IF rq.status # "ok" THEN rq
    ELSE
    LET rb == get_sliding_moves(self, "Bishop") IN
    IF rb.status # "ok" THEN rb
    ELSE
    LET rr == get_sliding_moves(self, "Rook") IN
    IF rr.status # "ok" THEN rr
    ELSE
    LET rn == get_knight_moves(self, bld) IN
    IF rn.status # "ok" THEN rn
    ELSE Ok(rk.moves \o rq.moves \o rb.moves \o rr.moves \o rn.moves)

\* Lines 679-685: one candidate of get_legal_moves.  The candidate is
\* applied to a clone, the mover's king is the first entry of the colored
\* King table of the clone, and the candidate is kept when no move of
\* get_all_moves on the clone ends on the king's index.
\* Lines 681-684, with `replies` what newboard.get_all_moves() gave.
king_safe(kingloc, replies, m) ==
    IF replies.status # "ok" THEN Fail(replies.status)
    ELSE IF \E j \in 1 .. Len(replies.moves) : replies.moves[j].to = kingloc
    THEN Ok(<<>>)
    ELSE Ok(<<m>>)

\* Lines 680-684, with `applied` what apply_move_nomut(m) gave.
legal_check(self, m, bld, applied) ==
    IF applied.panic THEN Fail("panic")
    ELSE IF Len(get_table_colored(applied.board, "King", self.to_play)) = 0
    THEN Fail("panic")
    ELSE king_safe(get_table_colored(applied.board, "King", self.to_play)[1],
                   get_all_moves(applied.board, bld), m)

\* The result with `receiver`, self as the pass left it.
with_receiver(r, applied) ==
    [moves |-> r.moves, status |-> r.status, receiver |-> applied.receiver]

legal_pass(self, m, bld, applied) ==
    with_receiver(legal_check(self, m, bld, applied), applied)

legal_candidate(self, m, bld) ==
    legal_pass(self, m, bld, apply_move_nomut(self, m, bld))

\* Lines 679-685: the loop over the candidates from the j-th on, `acc` the
\* moves kept so far; r is what the pass for the j-th candidate gave.
RECURSIVE legal_loop(_, _, _, _, _)
legal_next(candidates, j, acc, bld, r) ==
    IF r.status # "ok"
    THEN [moves |-> acc, status |-> r.status, receiver |-> r.receiver]
    ELSE legal_loop(r.receiver, candidates, j + 1, acc \o r.moves, bld)

legal_loop(self, candidates, j, acc, bld) ==
    IF j > Len(candidates)
    THEN [moves |-> acc, status |-> "ok", receiver |-> self]
    ELSE legal_next(candidates, j, acc, bld,
                    legal_candidate(self, candidates[j], bld))

\* Line 677 onwards, with `candidates` what get_all_moves gave.
legal_from(self, bld, candidates) ==
    IF candidates.status # "ok"
    THEN [moves |-> candidates.moves, status |-> candidates.status,
          receiver |-> self]
    ELSE legal_loop(self, candidates.moves, 1, <<>>, bld)

\* get_legal_moves (676-688): [moves, status] and `receiver`, self after
\* the call.
get_legal_moves(self, bld) == legal_from(self, bld, get_all_moves(self, bld))

\* ------------------------------------------------------------------------
\* The caller of apply_move
\* ------------------------------------------------------------------------
\* apply_move is unconditional (it checks nothing about the MoveOp), and
\* the only caller in the source, tests::board_test (718-735), hands it
\* MoveOps written by hand after the rules of chess.  The caller modelled
\* here does the same: it picks a (from, to) pair of its repertoire that is
\* a legal chess move on the squares of the board and sets the MoveOp flags
\* the way the MoveOp fields are documented.  Occupancy is the piece field
\* alone; the color of an empty square is never read.
RefFile(i) == i % Width

RefRank(i) == i \div Width

RefOccupied(sq, i) == sq[i].piece # "Empty"

RefOwn(sq, i, c) == RefOccupied(sq, i) /\ sq[i].color = c

RefSign(x) == IF x > 0 THEN 1 ELSE IF x < 0 THEN -1 ELSE 0

\* a and b on a common rank, file or diagonal, with the squares strictly
\* between them empty.
RefClearLine(sq, a, b, straight, diagonal) ==
    LET dr == RefRank(b) - RefRank(a)
        df == RefFile(b) - RefFile(a)
        n == IF Abs(dr) > Abs(df) THEN Abs(dr) ELSE Abs(df)
        step == RefSign(dr) * Width + RefSign(df)
    IN /\ a # b
       /\ \/ straight /\ (dr = 0 \/ df = 0)
          \/ diagonal /\ Abs(dr) = Abs(df)
       /\ \A k \in 1 .. (n - 1) : ~RefOccupied(sq, a + k * step)

\* The piece on i attacks the square t.
RefAttacks(sq, i, t) ==
    LET dr == RefRank(t) - RefRank(i)
        df == RefFile(t) - RefFile(i)
        kind == sq[i].piece
    IN CASE kind = "Pawn" ->
                /\ Abs(df) = 1
                /\ dr = (IF sq[i].color = "White" THEN -1 ELSE 1)
         [] kind = "Knight" -> {Abs(dr), Abs(df)} = {1, 2}
         [] kind = "King" -> i # t /\ Abs(dr) <= 1 /\ Abs(df) <= 1
         [] kind = "Rook" -> RefClearLine(sq, i, t, TRUE, FALSE)
         [] kind = "Bishop" -> RefClearLine(sq, i, t, FALSE, TRUE)
         [] kind = "Queen" -> RefClearLine(sq, i, t, TRUE, TRUE)
         [] OTHER -> FALSE

RefAttacked(sq, t, by) == \E i \in Idx : RefOwn(sq, i, by) /\ RefAttacks(sq, i, t)

RefForward(c) == IF c = "White" THEN -Width ELSE Width

RefHomeRank(c) == IF c = "White" THEN Height - 2 ELSE 1

RefIsDouble(b, from, to) ==
    LET c == b.squares[from].color IN
    /\ b.squares[from].piece = "Pawn"
    /\ RefRank(from) = RefHomeRank(c)
    /\ to = from + 2 * RefForward(c)
    /\ ~RefOccupied(b.squares, from + RefForward(c))
    /\ ~RefOccupied(b.squares, to)

RefIsEnPassant(b, from, to) ==
    LET c == b.squares[from].color IN
    /\ b.squares[from].piece = "Pawn"
    /\ RefAttacks(b.squares, from, to)
    /\ ~RefOccupied(b.squares, to)
    /\ b.en_passant = <<TRUE, to>>
    /\ to - RefForward(c) \in Idx
    /\ b.squares[to - RefForward(c)] = [color |-> Opposite(c), piece |-> "Pawn"]

RefIsCastle(b, from, to) ==
    LET c == b.squares[from].color
        home == IF c = "White" THEN NumSquares - 4 ELSE 4
        rights == IF c = "White" THEN b.castling[1] ELSE b.castling[2]
        king_side == to = from + 2
        corner == IF king_side THEN from + 3 ELSE from - 4
        between == IF king_side THEN {from + 1, from + 2}
                   ELSE {from - 1, from - 2, from - 3}
        crossed == IF king_side THEN {from, from + 1, from + 2}
                   ELSE {from, from - 1, from - 2}
    IN /\ b.squares[from].piece = "King"
       /\ from = home
       /\ to \in {from + 2, from - 2}
       /\ IF king_side THEN rights[1] ELSE rights[2]
       /\ b.squares[corner] = [color |-> c, piece |-> "Rook"]
       /\ \A i \in between : ~RefOccupied(b.squares, i)
       /\ \A i \in crossed : ~RefAttacked(b.squares, i, Opposite(c))

\* The MoveOp the caller writes for the pair (from, to).
CallerMove(b, from, to) ==
    [from |-> from, to |-> to,
     is_enpassant |-> RefIsEnPassant(b, from, to),
     is_castle |-> RefIsCastle(b, from, to),
     set_enpassant |-> IF RefIsDouble(b, from, to)
                       THEN <<TRUE, from + RefForward(b.squares[from].color)>>
                       ELSE <<FALSE, 0>>,
     promote |-> "Empty"]

\* The squares after the move, by the rules of chess.
RefAfter(b, from, to) ==
    LET c == b.squares[from].color
        sq1 == [b.squares EXCEPT ![to] = b.squares[from],
                                 ![from] = SquareDefault]
        sq2 == IF RefIsEnPassant(b, from, to)
               THEN [sq1 EXCEPT ![to - RefForward(c)] = SquareDefault]
               ELSE sq1
        corner == IF to > from THEN from + 3 ELSE from - 4
        beside == IF to > from THEN to - 1 ELSE to + 1
    IN IF RefIsCastle(b, from, to)
       THEN [sq2 EXCEPT ![beside] = b.squares[corner], ![corner] = SquareDefault]
       ELSE sq2

\* (from, to) is a legal chess move of the side to move.  Moves onto the
\* last rank of a pawn are left out: promotion is not implemented.
ChessLegal(b, from, to) ==
    LET sq == b.squares
        c == b.to_play
        kind == sq[from].piece
        after == RefAfter(b, from, to)
    IN /\ RefOwn(sq, from, c)
       /\ from # to
       /\ ~RefOwn(sq, to, c)
       /\ CASE kind = "Pawn" ->
                 /\ RefRank(to) \notin {0, Height - 1}
                 /\ \/ to = from + RefForward(c) /\ ~RefOccupied(sq, to)
                    \/ RefIsDouble(b, from, to)
                    \/ RefAttacks(sq, from, to) /\ RefOwn(sq, to, Opposite(c))
                    \/ RefIsEnPassant(b, from, to)
            [] kind = "King" ->
                 RefAttacks(sq, from, to) \/ RefIsCastle(b, from, to)
            [] OTHER -> RefAttacks(sq, from, to)
       /\ \A k \in Idx :
              after[k] = [color |-> c, piece |-> "King"]
                  => ~RefAttacked(after, k, Opposite(c))

\* The caller's repertoire of (from, to) pairs.
Book ==
    {<<48, 40>>, <<40, 32>>, <<52, 36>>, <<36, 28>>, <<60, 52>>, <<28, 19>>,
     <<36, 27>>,
     <<8, 16>>, <<11, 27>>, <<27, 35>>, <<12, 28>>, <<35, 44>>, <<4, 12>>,
     <<60, 62>>, <<60, 61>>, <<63, 61>>, <<4, 6>>, <<4, 5>>, <<7, 5>>,
     <<60, 51>>, <<42, 50>>, <<4, 3>>,
     <<31, 39>>, <<31, 30>>, <<32, 40>>,
     <<5, 12>>, <<1, 2>>, <<62, 45>>}

\* ------------------------------------------------------------------------
\* Notation strings given to from_fen
\* ------------------------------------------------------------------------
\* START_FEN (board.rs 7).
START_FEN ==
    [placement |-> <<"r", "n", "b", "q", "k", "b", "n", "r", "/",
                     "p", "p", "p", "p", "p", "p", "p", "p", "/",
                     "8", "/", "8", "/", "8", "/", "8", "/",
                     "P", "P", "P", "P", "P", "P", "P", "P", "/",
                     "R", "N", "B", "Q", "K", "B", "N", "R">>,
     toplay |-> <<"w">>, castling |-> <<"K", "Q", "k", "q">>,
     en_passant |-> <<"-">>, halfmove |-> <<"0">>, fullmove |-> <<"1">>]

\* "4k3/8/8/3pP3/8/8/8/4K3 w - d6 0 1"
EP_FEN ==
    [placement |-> <<"4", "k", "3", "/", "8", "/", "8", "/",
                     "3", "p", "P", "3", "/", "8", "/", "8", "/", "8", "/",
                     "4", "K", "3">>,
     toplay |-> <<"w">>, castling |-> <<"-">>, en_passant |-> <<"d", "6">>,
     halfmove |-> <<"0">>, fullmove |-> <<"1">>]

\* "1k6/8/8/8/8/8/8/4K2R w K - 5 1"
CASTLE_W_FEN ==
    [placement |-> <<"1", "k", "6", "/", "8", "/", "8", "/", "8", "/",
                     "8", "/", "8", "/", "8", "/", "4", "K", "2", "R">>,
     toplay |-> <<"w">>, castling |-> <<"K">>, en_passant |-> <<"-">>,
     halfmove |-> <<"5">>, fullmove |-> <<"1">>]

\* "1K2k2r/8/8/8/8/8/8/8 b k - 5 1"
CASTLE_B_FEN ==
    [placement |-> <<"1", "K", "2", "k", "2", "r", "/", "8", "/", "8", "/",
                     "8", "/", "8", "/", "8", "/", "8", "/", "8">>,
     toplay |-> <<"b">>, castling |-> <<"k">>, en_passant |-> <<"-">>,
     halfmove |-> <<"5">>, fullmove |-> <<"1">>]

\* "4k3/8/8/8/8/2p5/3n4/4K3 w - - 5 1"
GUARD_FEN ==
    [placement |-> <<"4", "k", "3", "/", "8", "/", "8", "/", "8", "/", "8", "/",
                     "2", "p", "5", "/", "3", "n", "4", "/", "4", "K", "3">>,
     toplay |-> <<"w">>, castling |-> <<"-">>, en_passant |-> <<"-">>,
     halfmove |-> <<"5">>, fullmove |-> <<"1">>]

\* "4k3/8/8/7R/p7/8/8/4K3 w - - 5 1"
EDGE_FEN ==
    [placement |-> <<"4", "k", "3", "/", "8", "/", "8", "/", "7", "R", "/",
                     "p", "7", "/", "8", "/", "8", "/", "4", "K", "3">>,
     toplay |-> <<"w">>, castling |-> <<"-">>, en_passant |-> <<"-">>,
     halfmove |-> <<"5">>, fullmove |-> <<"1">>]

\* "4k3/8/8/8/8/8/8/4K2 w - - 5 1": the last rank describes 7 squares.
SHORT_FEN ==
    [placement |-> <<"4", "k", "3", "/", "8", "/", "8", "/", "8", "/", "8", "/",
                     "8", "/", "8", "/", "4", "K", "2">>,
     toplay |-> <<"w">>, castling |-> <<"-">>, en_passant |-> <<"-">>,
     halfmove |-> <<"5">>, fullmove |-> <<"1">>]

\* "4k3/8/8/8/8/8/8/4K4 w - - 5 1": the last rank describes 9 squares.
LONG_FEN ==
    [placement |-> <<"4", "k", "3", "/", "8", "/", "8", "/", "8", "/", "8", "/",
                     "8", "/", "8", "/", "4", "K", "4">>,
     toplay |-> <<"w">>, castling |-> <<"-">>, en_passant |-> <<"-">>,
     halfmove |-> <<"5">>, fullmove |-> <<"1">>]

\* "4k3/8/8/8/8/8/8/8/4K3 w - - 5 1": nine ranks.
NINE_FEN ==
    [placement |-> <<"4", "k", "3", "/", "8", "/", "8", "/", "8", "/", "8", "/",
                     "8", "/", "8", "/", "8", "/", "4", "K", "3">>,
     toplay |-> <<"w">>, castling |-> <<"-">>, en_passant |-> <<"-">>,
     halfmove |-> <<"5">>, fullmove |-> <<"1">>]

\* "4k3/8/8/8/8/8/8/4K3 w - - 12 7": a two-digit halfmove field.
HALF12_FEN ==
    [placement |-> <<"4", "k", "3", "/", "8", "/", "8", "/", "8", "/", "8", "/",
                     "8", "/", "8", "/", "4", "K", "3">>,
     toplay |-> <<"w">>, castling |-> <<"-">>, en_passant |-> <<"-">>,
     halfmove |-> <<"1", "2">>, fullmove |-> <<"7">>]

\* "4k3/8/8/8/8/8/8/4K3 w - - 5 12": a two-digit fullmove field.
FULL12_FEN ==
    [placement |-> <<"4", "k", "3", "/", "8", "/", "8", "/", "8", "/", "8", "/",
                     "8", "/", "8", "/", "4", "K", "3">>,
     toplay |-> <<"w">>, castling |-> <<"-">>, en_passant |-> <<"-">>,
     halfmove |-> <<"5">>, fullmove |-> <<"1", "2">>]

\* "1n6/8/8/7k/8/8/8/4K3 b - - 5 1": a Black knight on b8 and the Black
\* king on h5.
BLACK_EDGE_FEN ==
    [placement |-> <<"1", "n", "6", "/", "8", "/", "8", "/", "7", "k", "/",
                     "8", "/", "8", "/", "8", "/", "4", "K", "3">>,
     toplay |-> <<"b">>, castling |-> <<"-">>, en_passant |-> <<"-">>,
     halfmove |-> <<"5">>, fullmove |-> <<"1">>]

\* "4k3/8/8/8/8/8/8/4K2R w K - 5 1": White may castle kingside, the Black
\* king on its home square.
CASTLE_HOME_FEN ==
    [placement |-> <<"4", "k", "3", "/", "8", "/", "8", "/", "8", "/",
                     "8", "/", "8", "/", "8", "/", "4", "K", "2", "R">>,
     toplay |-> <<"w">>, castling |-> <<"K">>, en_passant |-> <<"-">>,
     halfmove |-> <<"5">>, fullmove |-> <<"1">>]

\* "1k6/8/8/8/8/8/8/4K2R w K - 1 1": White may castle kingside with one
\* halfmove left on the clock.
CLOCK1_FEN ==
    [placement |-> <<"1", "k", "6", "/", "8", "/", "8", "/", "8", "/",
                     "8", "/", "8", "/", "8", "/", "4", "K", "2", "R">>,
     toplay |-> <<"w">>, castling |-> <<"K">>, en_passant |-> <<"-">>,
     halfmove |-> <<"1">>, fullmove |-> <<"1">>]

\* "rnbqkbnr/ppppppp1/8/8/8/5N2/PPPPPPpP/RNBQKB1R b KQkq - 5 5": the start
\* position after 1. Nf3 h5 2. Nc3 h4 3. Nb1 h3 4. Nc3 hxg2 5. Nb1, with
\* a Black pawn on g2 in front of the empty square g1.
PAWN_G2_FEN ==
    [placement |-> <<"r", "n", "b", "q", "k", "b", "n", "r", "/",
                     "p", "p", "p", "p", "p", "p", "p", "1", "/",
                     "8", "/", "8", "/", "8", "/",
                     "5", "N", "2", "/",
                     "P", "P", "P", "P", "P", "P", "p", "P", "/",
                     "R", "N", "B", "Q", "K", "B", "1", "R">>,
     toplay |-> <<"b">>, castling |-> <<"K", "Q", "k", "q">>,
     en_passant |-> <<"-">>, halfmove |-> <<"5">>, fullmove |-> <<"5">>]

Fens ==
    {START_FEN, EP_FEN, CASTLE_W_FEN, CASTLE_B_FEN, GUARD_FEN, EDGE_FEN,
     SHORT_FEN, LONG_FEN, NINE_FEN, HALF12_FEN, FULL12_FEN, BLACK_EDGE_FEN,
     CASTLE_HOME_FEN, CLOCK1_FEN, PAWN_G2_FEN}

\* Generators are called on the boards at most this many moves after the
\* parse.
MaxGenPly == 5
MaxGenApply == 1

\* ------------------------------------------------------------------------
\* The state machine
\* ------------------------------------------------------------------------
VARIABLES
    fen,      \* the notation string from_fen was called with
    build,    \* the overflow behaviour of the build
    game,     \* the Board the caller owns (ChessApp.game, board_test's board)
    status,   \* "active"; "err": from_fen returned Err; "panic": a call panicked
    ply,      \* number of apply_move calls since the parse
    movesource, \* where the caller's MoveOps come from: "caller" writes them
              \* out (board_test), "generator" takes them from the vector
              \* a generator returned (as get_legal_moves does, 677-680)
    last      \* the last call: its name, the piece kind or MoveOp it was
              \* given, the caller's board before it, what a generator
              \* returned and the board apply_move_nomut returned

vars == <<fen, build, game, status, ply, movesource, last>>

\* The generators whose vectors hold the moves of the pieces themselves.
GeneratorOps ==
    {"get_king_moves", "get_knight_moves", "get_sliding_moves",
     "get_pawn_moves", "get_all_moves"}

\* No board was returned by the last call.
NoChild == [board |-> BoardDefault, aliased |-> {}]

NoCall(op, b) ==
    [op |-> op, piece |-> "Empty", moveop |-> MoveOpDefault, before |-> b,
     ret |-> Ok(<<>>), child |-> NoChild]

Init ==
    /\ fen \in Fens
    /\ build \in Builds
    /\ LET parsed == from_fen(fen, build)
       IN /\ game = parsed.board
          /\ status = IF parsed.status = "ok" THEN "active" ELSE parsed.status
          /\ last = NoCall("from_fen", BoardDefault)
    /\ ply = 0
    /\ movesource \in IF fen = START_FEN THEN {"caller", "generator"}
                                          ELSE {"caller"}

\* board.apply_move(moveop), the MoveOp written by the caller.
ApplyMove ==
    /\ status = "active"
    /\ movesource = "caller"
    /\ ply < MaxPly
    /\ \E ft \in Book :
          /\ ChessLegal(game, ft[1], ft[2])
          /\ LET moveop == CallerMove(game, ft[1], ft[2])
                 r == apply_move(game, moveop, build)
             IN /\ game' = r.board
                /\ status' = IF r.panic THEN "panic" ELSE "active"
                /\ last' = [NoCall("apply_move", game) EXCEPT !.moveop = moveop]
    /\ ply' = ply + 1
    /\ UNCHANGED <<fen, build, movesource>>

\* board.apply_move(m) for a MoveOp m of the vector the last generator call
\* returned for this board; such games begin from START_FEN.
ApplyGenerated ==
    /\ status = "active"
    /\ movesource = "generator"
    /\ ply < MaxGenApply
    /\ last.op \in GeneratorOps
    /\ last.ret.status = "ok"
    /\ \E j \in 1 .. Len(last.ret.moves) :
          LET moveop == last.ret.moves[j]
              r == apply_move(game, moveop, build)
          IN /\ game' = r.board
             /\ status' = IF r.panic THEN "panic" ELSE "active"
             /\ last' = [NoCall("apply_move", game) EXCEPT !.moveop = moveop]
    /\ ply' = ply + 1
    /\ UNCHANGED <<fen, build, movesource>>

\* A generator called on the caller's board; the board is left alone.
Generate(op, piece, r) ==
    /\ status = "active"
    /\ ply <= MaxGenPly
    /\ last' = [NoCall(op, game) EXCEPT !.piece = piece, !.ret = r]
    /\ UNCHANGED <<fen, build, game, status, ply, movesource>>

\* The caller's variables after a call on `game` gave r: `game` is the
\* receiver as the call left it, and the child is kept in `last`.
Returned(op, moveop, r) ==
    /\ game' = r.receiver
    /\ status' = IF r.panic THEN "panic" ELSE "active"
    /\ last' = [NoCall(op, game) EXCEPT
                   !.moveop = moveop,
                   !.child = [board |-> r.board, aliased |-> r.aliased]]

NomutReturned(moveop) ==
    Returned("apply_move_nomut", moveop, apply_move_nomut(game, moveop, build))

ChildReturned(moveop) ==
    Returned("child.apply_move", moveop,
             nomut_return(game, last.child.aliased,
                          apply_move(last.child.board, moveop, build)))

\* let child = board.apply_move_nomut(moveop).
CallApplyMoveNomut ==
    /\ status = "active"
    /\ ply <= MaxGenPly
    /\ \E ft \in Book :
          /\ ChessLegal(game, ft[1], ft[2])
          /\ NomutReturned(CallerMove(game, ft[1], ft[2]))
    /\ UNCHANGED <<fen, build, ply, movesource>>

\* child.apply_move(moveop) on the board apply_move_nomut just returned.
MutateChild ==
    /\ status = "active"
    /\ last.op = "apply_move_nomut"
    /\ \E ft \in Book :
          /\ ChessLegal(last.child.board, ft[1], ft[2])
          /\ ChildReturned(CallerMove(last.child.board, ft[1], ft[2]))
    /\ UNCHANGED <<fen, build, ply, movesource>>

LegalMovesReturned(r) ==
    /\ game' = r.receiver
    /\ last' = [NoCall("get_legal_moves", game) EXCEPT
                   !.ret = [moves |-> r.moves, status |-> r.status]]

\* get_legal_moves takes &self; its clones are the only boards it changes.
CallGetLegalMoves ==
    /\ status = "active"
    /\ ply <= MaxGenPly
    /\ LegalMovesReturned(get_legal_moves(game, build))
    /\ UNCHANGED <<fen, build, status, ply, movesource>>

CallGetAllMoves ==
    Generate("get_all_moves", "Empty", get_all_moves(game, build))

CallGetPawnMoves ==
    Generate("get_pawn_moves", "Pawn", get_pawn_moves(game, build))

CallGetSlidingMoves ==
    \E piece \in {"Rook", "Bishop", "Queen"} :
        Generate("get_sliding_moves", piece, get_sliding_moves(game, piece))

CallGetKnightMoves ==
    Generate("get_knight_moves", "Knight", get_knight_moves(game, build))

CallGetKingMoves ==
    Generate("get_king_moves", "King", get_king_moves(game))

Next ==
    \/ ApplyMove
    \/ ApplyGenerated
    \/ CallApplyMoveNomut
    \/ MutateChild
    \/ CallGetLegalMoves
    \/ CallGetAllMoves
    \/ CallGetPawnMoves
    \/ CallGetSlidingMoves
    \/ CallGetKnightMoves
    \/ CallGetKingMoves

Spec == Init /\ [][Next]_vars

\* ------------------------------------------------------------------------
\* Properties
\* ------------------------------------------------------------------------
Kinds == PieceType \ {"Empty"}

InTable(b, k, i) == \E j \in 1 .. Len(b.piece_map[k]) : b.piece_map[k][j] = i

\* The last call was an apply_move that returned.
Applied == last.op = "apply_move" /\ status = "active"

\* The color of the piece the last MoveOp moved, read before the move.
Mover == last.before.squares[last.moveop.from].color

MovedPiece == last.before.squares[last.moveop.from].piece

\* C1: from the board parsed from the standard start notation, after every
\* apply_move of a sequence of legal chess moves, for every index i and
\* piece kind k, squares[i].piece = k exactly when i is in piece_map[k].
C1_IndexSynchronized ==
    (fen = START_FEN /\ Applied) =>
        \A i \in Idx : \A k \in Kinds :
            (game.squares[i].piece = k) <=> InTable(game, k, i)

\* C2: after an apply_move of an en-passant capture, the square one rank
\* behind `to` (to + width for a White mover, to - width for a Black mover)
\* is Empty in squares and absent from piece_map[Pawn], and `to` holds the
\* capturing pawn.
C2_EnPassantRemovesPawn ==
    (Applied /\ last.moveop.is_enpassant) =>
        LET behind == last.moveop.to
                      + (IF Mover = "White" THEN Width ELSE -Width)
        IN /\ game.squares[behind].piece = "Empty"
           /\ ~InTable(game, "Pawn", behind)
           /\ game.squares[last.moveop.to] = [color |-> Mover, piece |-> "Pawn"]

\* C3: an apply_move whose moving piece is the White king on its home
\* square 60 leaves both White castling booleans false and the Black ones
\* unchanged; a move of the Black king from its home square 4 does the same
\* with the colors exchanged.
C3_KingMoveClearsRights ==
    (Applied /\ MovedPiece = "King") =>
        /\ (Mover = "White" /\ last.moveop.from = 60) =>
              /\ game.castling[1] = <<FALSE, FALSE>>
              /\ game.castling[2] = last.before.castling[2]
        /\ (Mover = "Black" /\ last.moveop.from = 4) =>
              /\ game.castling[2] = <<FALSE, FALSE>>
              /\ game.castling[1] = last.before.castling[1]

\* The last MoveOp moved a pawn or captured (occupied `to`, or en passant).
PawnMoveOrCapture ==
    \/ MovedPiece = "Pawn"
    \/ last.before.squares[last.moveop.to].piece # "Empty"
    \/ last.moveop.is_enpassant

\* C4: apply_move sets halfmove_clock to 50 exactly when the moved piece is
\* a Pawn or the move is a capture; every other move leaves the clock one
\* below its value before the move.
C4_FiftyMoveCounter ==
    Applied =>
        /\ PawnMoveOrCapture => game.halfmove_clock = 50
        /\ (~PawnMoveOrCapture /\ last.before.halfmove_clock > 0) =>
              game.halfmove_clock = last.before.halfmove_clock - 1

\* C5: applying a move made by Black increases fullmove_number by exactly
\* 1, and applying a move made by White leaves it unchanged, castling moves
\* included.
C5_FullmoveBookkeeping ==
    Applied =>
        game.fullmove_number =
            last.before.fullmove_number + (IF Mover = "Black" THEN 1 ELSE 0)

\* C6: every apply_move, a castling king move included, leaves to_play the
\* opposite of its value before the call.
C6_TurnAlternates ==
    Applied => game.to_play = Opposite(last.before.to_play)

\* The positions of the moves of a generator result that start on a piece
\* of kind k of the board the generator was called on.
MovesOfKind(k) ==
    {j \in 1 .. Len(last.ret.moves) :
        last.before.squares[last.ret.moves[j].from].piece = k}

\* C7: on the board parsed from the standard start notation,
\* get_legal_moves returns exactly 20 moves: 8 pawn single advances, 8 pawn
\* double advances and 4 knight moves.
C7_TwentyMovesAtStart ==
    (fen = START_FEN /\ ply = 0 /\ last.op = "get_legal_moves") =>
        /\ last.ret.status = "ok"
        /\ Len(last.ret.moves) = 20
        /\ Cardinality({j \in MovesOfKind("Pawn") :
               last.ret.moves[j].to = last.ret.moves[j].from - Width}) = 8
        /\ Cardinality({j \in MovesOfKind("Pawn") :
               last.ret.moves[j].to = last.ret.moves[j].from - 2 * Width}) = 8
        /\ Cardinality(MovesOfKind("Knight")) = 4

OneKingPerSide(b) ==
    \A c \in Color :
        Cardinality({i \in Idx : b.squares[i] = [color |-> c, piece |-> "King"]}) = 1

\* Some move the opponent's generators (get_all_moves and get_pawn_moves)
\* return on board nb ends on a king of color c.
KingTargeted(nb, c, bld) ==
    LET others == get_all_moves(nb, bld)
        pawns == get_pawn_moves(nb, bld)
        hits(r) == /\ r.status = "ok"
                   /\ \E j \in 1 .. Len(r.moves) :
                          nb.squares[r.moves[j].to] = [color |-> c, piece |-> "King"]
    IN hits(others) \/ hits(pawns)

\* C8: on a board with one king per side, every move get_legal_moves
\* returns leaves, once applied, a board on which no pseudo-legal move of
\* the opponent, pawn moves included, ends on the mover's king.
C8_LegalMovesKeepKingSafe ==
    (last.op = "get_legal_moves" /\ last.ret.status = "ok"
        /\ OneKingPerSide(game)) =>
        \A j \in 1 .. Len(last.ret.moves) :
            LET r == apply_move_nomut(game, last.ret.moves[j], build)
            IN ~r.panic => ~KingTargeted(r.board, game.to_play, build)

\* C9: a sliding generator returns no move from a square of the last file
\* to the next index (file 0 of the next rank), and every move it returns
\* joins two squares on a common rank, file or diagonal.
C9_SlidersStayOnLines ==
    (last.op = "get_sliding_moves" /\ last.ret.status = "ok") =>
        \A j \in 1 .. Len(last.ret.moves) :
            LET m == last.ret.moves[j]
                dr == RefRank(m.to) - RefRank(m.from)
                df == RefFile(m.to) - RefFile(m.from)
            IN /\ ~(RefFile(m.from) = Width - 1 /\ m.to = m.from + 1)
               /\ (dr = 0 \/ df = 0 \/ Abs(dr) = Abs(df))

\* C10: on the board parsed from "4k3/8/8/3pP3/8/8/8/4K3 w - d6 0 1" the
\* en-passant target is index 19 (d6), and get_pawn_moves for White returns
\* a move from 28 (e5) to 19 with is_enpassant set.
C10_EnPassantFromNotation ==
    (fen = EP_FEN /\ ply = 0) =>
        /\ status = "active"
        /\ game.en_passant = <<TRUE, 19>>
        /\ last.op = "get_pawn_moves" =>
              /\ last.ret.status = "ok"
              /\ \E j \in 1 .. Len(last.ret.moves) :
                     /\ last.ret.moves[j].from = 28
                     /\ last.ret.moves[j].to = 19
                     /\ last.ret.moves[j].is_enpassant

\* C11: after every apply_move, en_passant is (true, set_enpassant.1) when
\* the applied MoveOp has set_enpassant flagged and (false, 0) otherwise; a
\* target set by one move is gone after the next move unless that move sets
\* its own.
C11_EnPassantLifetime ==
    Applied =>
        game.en_passant =
            (IF last.moveop.set_enpassant[1]
             THEN <<TRUE, last.moveop.set_enpassant[2]>>
             ELSE <<FALSE, 0>>)

\* A move without the flag was applied to a board with an active target.
C11_Witness ==
    /\ Applied
    /\ last.before.en_passant[1]
    /\ ~last.moveop.set_enpassant[1]
    /\ game.en_passant = <<FALSE, 0>>

\* C12: apply_move_nomut leaves its receiver unchanged in every field and
\* returns the board apply_move produces from a copy; a later apply_move on
\* the returned board leaves the original's squares and piece_map alone;
\* get_legal_moves leaves the board it is called on unchanged.
C12_NomutLeavesReceiver ==
    /\ last.op = "apply_move_nomut" =>
          /\ game = last.before
          /\ status = "active" =>
                last.child.board
                    = apply_move(last.before, last.moveop, build).board
    /\ last.op = "child.apply_move" =>
          /\ game.squares = last.before.squares
          /\ game.piece_map = last.before.piece_map
    /\ last.op = "get_legal_moves" => game = last.before

\* The board apply_move_nomut returned was moved on again, and both of its
\* heap fields differ from the original's.
C12_Witness ==
    /\ last.op = "child.apply_move"
    /\ status = "active"
    /\ last.child.board.squares # game.squares
    /\ last.child.board.piece_map # game.piece_map

\* The number of squares each slash-separated rank of a placement field
\* describes: a digit counts for its value, a letter for one.
RECURSIVE RankWidths(_, _, _, _)
RankWidths(f, j, cur, acc) ==
    IF j > Len(f) THEN Append(acc, cur)
    ELSE IF f[j] = "/" THEN RankWidths(f, j + 1, 0, Append(acc, cur))
    ELSE RankWidths(f, j + 1,
             cur + (IF f[j] \in Digits THEN Ord(f[j]) - 48 ELSE 1), acc)

\* Exactly 8 ranks of exactly 8 squares, of piece letters and digits 1-8.
WellFormedPlacement(f) ==
    /\ \A j \in 1 .. Len(f) : f[j] \in PlacementClass \cup {"/"}
    /\ RankWidths(f, 1, 0, <<>>) = [r \in 1 .. Height |-> Width]

\* C13: from_fen returns an error, and neither a board nor a panic, for
\* every notation string whose placement field is not exactly 8
\* slash-separated ranks of exactly 8 squares each.
C13_PlacementValidated ==
    ~WellFormedPlacement(fen.placement) => status = "err"

\* The value of a field of decimal digits.
RECURSIVE DecimalValue(_, _, _)
DecimalValue(f, j, acc) ==
    IF j > Len(f) THEN acc
    ELSE DecimalValue(f, j + 1, 10 * acc + (Ord(f[j]) - 48))

IsDecimal(f) == Len(f) >= 1 /\ \A j \in 1 .. Len(f) : f[j] \in Digits

\* A well-formed notation string: a placement of 8 ranks of 8 squares, a
\* side, castling letters or "-", a target square or "-", and two decimal
\* counters within u16, the fullmove number at least 1.
WellFormedFen(f) ==
    /\ WellFormedPlacement(f.placement)
    /\ f.toplay \in {<<"w">>, <<"b">>}
    /\ \/ f.castling = <<"-">>
       \/ /\ Len(f.castling) \in 1 .. 4
          /\ \A j \in 1 .. Len(f.castling) : f.castling[j] \in {"K", "Q", "k", "q"}
    /\ \/ f.en_passant = <<"-">>
       \/ /\ Len(f.en_passant) = 2
          /\ f.en_passant[1] \in {"a", "b", "c", "d", "e", "f", "g", "h"}
          /\ f.en_passant[2] \in {"3", "6"}
    /\ IsDecimal(f.halfmove) /\ DecimalValue(f.halfmove, 1, 0) < U16
    /\ IsDecimal(f.fullmove) /\ DecimalValue(f.fullmove, 1, 0) \in 1 .. (U16 - 1)

\* C14: for every well-formed notation string, counters of two or more
\* digits included, from_fen succeeds and the board it returns has
\* halfmove_clock and fullmove_number equal to the decimal values of the
\* halfmove and fullmove fields.
C14_CounterFields ==
    (WellFormedFen(fen) /\ last.op = "from_fen") =>
        /\ status = "active"
        /\ game.halfmove_clock = DecimalValue(fen.halfmove, 1, 0)
        /\ game.fullmove_number = DecimalValue(fen.fullmove, 1, 0)

\* C15: on the board from_fen returns, for the standard start notation and
\* every accepted string, piece_map has an entry for each of the six piece
\* kinds and none for Empty, and piece_map[k] holds exactly the indices i
\* with squares[i].piece = k, each once.
C15_RoundTripPlacement ==
    (last.op = "from_fen" /\ status = "active") =>
        /\ DOMAIN game.piece_map = Kinds
        /\ \A k \in Kinds :
              /\ \A i \in Idx : (game.squares[i].piece = k) <=> InTable(game, k, i)
              /\ Len(game.piece_map[k])
                     = Cardinality({i \in Idx : game.squares[i].piece = k})

\* The board parsed from the standard start notation, with its 16 pawns
\* and the rook of index 0 in the tables.
C15_Witness ==
    /\ fen = START_FEN
    /\ last.op = "from_fen"
    /\ status = "active"
    /\ Len(game.piece_map["Pawn"]) = 16
    /\ InTable(game, "Rook", 0)

\* C16: on every board from_fen returns and every board reached from it by
\* applying moves, get_sliding_moves for Rook, Bishop and Queen,
\* get_all_moves and get_legal_moves terminate.
C16_GenerationTerminates ==
    last.op \in {"get_sliding_moves", "get_all_moves", "get_legal_moves"} =>
        last.ret.status # "diverge"

\* The (from, to) pairs of a sequence of MoveOps.
MoveSet(ms) == {<<ms[j].from, ms[j].to>> : j \in 1 .. Len(ms)}

\* The (from, to) pairs of the pieces of kind `piece` of the side to move
\* on board b: every square the piece attacks that its own side does not
\* occupy.  For a slider these are the empty squares of each ray up to the
\* first occupied square, and that square when an enemy piece stands on it.
RefMoves(b, piece) ==
    {ft \in Idx \X Idx :
        /\ b.squares[ft[1]] = [color |-> b.to_play, piece |-> piece]
        /\ RefAttacks(b.squares, ft[1], ft[2])
        /\ ~RefOwn(b.squares, ft[2], b.to_play)}

\* C17: for every Rook, Bishop or Queen of the side to move and every
\* direction of the piece, get_sliding_moves emits a move to each successive
\* empty square of the ray, a capture on the first occupied square exactly
\* when an enemy piece stands there, and nothing else.
C17_SlidingResult ==
    (last.op = "get_sliding_moves" /\ last.ret.status = "ok") =>
        MoveSet(last.ret.moves) = RefMoves(last.before, last.piece)

\* Board b with the color field of every Empty square set to c.
Recolor(b, c) ==
    [b EXCEPT !.squares =
        [i \in Idx |-> IF b.squares[i].piece = "Empty"
                       THEN [color |-> c, piece |-> "Empty"]
                       ELSE b.squares[i]]]

WithoutReceiver(r) == [moves |-> r.moves, status |-> r.status]

\* What the generator named op returns on board b.
GenCall(op, piece, b, bld) ==
    CASE op = "get_king_moves" -> get_king_moves(b)
      [] op = "get_knight_moves" -> get_knight_moves(b, bld)
      [] op = "get_sliding_moves" -> get_sliding_moves(b, piece)
      [] op = "get_pawn_moves" -> get_pawn_moves(b, bld)
      [] op = "get_all_moves" -> get_all_moves(b, bld)
      [] op = "get_legal_moves" -> WithoutReceiver(get_legal_moves(b, bld))

GenOps ==
    {"get_king_moves", "get_knight_moves", "get_sliding_moves",
     "get_pawn_moves", "get_all_moves", "get_legal_moves"}

\* C18: on two boards that differ only in the color field of Empty
\* squares, the king, knight, sliding and pawn generators and
\* get_legal_moves return the same moves.
C18_EmptyColorIrrelevant ==
    (last.op \in GenOps /\ last.ret.status = "ok") =>
        \A c \in Color :
            LET r == GenCall(last.op, last.piece, Recolor(last.before, c), build)
            IN r.status = "ok" =>
                  {r.moves[j] : j \in 1 .. Len(r.moves)}
                      = {last.ret.moves[j] : j \in 1 .. Len(last.ret.moves)}

\* C19: for every knight of the side to move, on any square of the board,
\* get_knight_moves returns exactly the moves to the L-shaped targets that
\* lie on the board without wrapping a rank edge and hold no own piece;
\* empty and enemy-occupied targets are all included.
C19_KnightResult ==
    last.op = "get_knight_moves" =>
        /\ last.ret.status = "ok"
        /\ MoveSet(last.ret.moves) = RefMoves(last.before, "Knight")

\* C20: every move get_king_moves returns has a target whose file and rank
\* each differ from the king's by at most 1; a king on file 0 or 7 gets no
\* move onto the opposite file.
C20_KingStaysAdjacent ==
    (last.op = "get_king_moves" /\ last.ret.status = "ok") =>
        \A j \in 1 .. Len(last.ret.moves) :
            LET m == last.ret.moves[j]
            IN /\ Abs(RefFile(m.to) - RefFile(m.from)) <= 1
               /\ Abs(RefRank(m.to) - RefRank(m.from)) <= 1

\* Move m of a pawn of color c is a two-square advance.
IsTwoSquareAdvance(m, c) == m.to = m.from + 2 * RefForward(c)

\* C21: get_pawn_moves emits a two-square advance only for a pawn on its
\* color's starting rank (rank index 6 for White, 1 for Black) and only when
\* the intermediate and the destination square are both empty; that move
\* carries set_enpassant = (true, intermediate square), and no other pawn
\* move sets set_enpassant.
C21_DoubleAdvance ==
    (last.op = "get_pawn_moves" /\ last.ret.status = "ok") =>
        \A j \in 1 .. Len(last.ret.moves) :
            LET m == last.ret.moves[j]
                c == last.before.to_play
                mid == m.from + RefForward(c)
            IN IF IsTwoSquareAdvance(m, c)
               THEN /\ RefRank(m.from) = RefHomeRank(c)
                    /\ ~RefOccupied(last.before.squares, mid)
                    /\ ~RefOccupied(last.before.squares, m.to)
                    /\ m.set_enpassant = <<TRUE, mid>>
               ELSE ~m.set_enpassant[1]

\* The castling booleans `rights` with the right of color c cleared for the
\* side whose rook starts on file f of the home rank.
WithoutRight(rights, c, f) ==
    LET cleared(pair) == IF f = Width - 1 THEN <<FALSE, pair[2]>>
                         ELSE <<pair[1], FALSE>>
    IN IF c = "White" THEN <<cleared(rights[1]), rights[2]>>
       ELSE <<rights[1], cleared(rights[2])>>

\* The home corners of the rooks of color c.
HomeCorners(c) ==
    IF c = "White" THEN {NumSquares - Width, NumSquares - 1} ELSE {0, Width - 1}

\* C22: applying a move of a rook from its home corner clears that color's
\* right for that side (kingside from the last column, queenside from
\* column 0) and leaves the other three booleans unchanged; applying a move
\* of a piece other than a Rook or King changes no castling boolean.
C22_RookRights ==
    Applied =>
        /\ (MovedPiece = "Rook" /\ last.moveop.from \in HomeCorners(Mover)) =>
              game.castling = WithoutRight(last.before.castling, Mover,
                                           RefFile(last.moveop.from))
        /\ MovedPiece \notin {"Rook", "King"} =>
              game.castling = last.before.castling

\* C23: applying a king move with is_castle = true, from the king's home
\* square two files toward a rook on its home corner, ends with the king on
\* `to`, the rook on the square the king crossed (to - 1 kingside, to + 1
\* queenside), both origin squares Empty, and piece_map[King] and
\* piece_map[Rook] holding the new indices and not the old ones.
C23_CastlePlacement ==
    (Applied /\ last.moveop.is_castle) =>
        LET from == last.moveop.from
            to == last.moveop.to
            corner == IF to > from THEN from + 3 ELSE from - 4
            crossed == IF to > from THEN to - 1 ELSE to + 1
        IN /\ game.squares[to] = [color |-> Mover, piece |-> "King"]
           /\ game.squares[crossed] = [color |-> Mover, piece |-> "Rook"]
           /\ game.squares[from].piece = "Empty"
           /\ game.squares[corner].piece = "Empty"
           /\ InTable(game, "King", to) /\ ~InTable(game, "King", from)
           /\ InTable(game, "Rook", crossed) /\ ~InTable(game, "Rook", corner)

\* The forward-diagonal squares of a pawn of color c on square i: one rank
\* forward, one file to either side, on the board.
PawnDiagonals(i, c) ==
    {t \in Idx : /\ RefRank(t) - RefRank(i) = (IF c = "White" THEN -1 ELSE 1)
                 /\ Abs(RefFile(t) - RefFile(i)) = 1}

\* The pawns of the side to move on board b.
PawnsToMove(b) ==
    {i \in Idx : b.squares[i] = [color |-> b.to_play, piece |-> "Pawn"]}

\* The moves of a generator result from i to t with is_enpassant = e.
Emitted(ms, i, t, e) ==
    \E j \in 1 .. Len(ms) :
        ms[j].from = i /\ ms[j].to = t /\ ms[j].is_enpassant = e

\* What C24 says of a pawn generator result ms on board b.
DiagonalCaptures(b, ms) ==
    /\ \A i \in PawnsToMove(b) : \A t \in PawnDiagonals(i, b.to_play) :
          /\ Emitted(ms, i, t, FALSE) <=> RefOwn(b.squares, t, Opposite(b.to_play))
          /\ Emitted(ms, i, t, TRUE) <=> b.en_passant = <<TRUE, t>>
    /\ \A j \in 1 .. Len(ms) :
          RefFile(ms[j].to) # RefFile(ms[j].from)
              => ms[j].to \in PawnDiagonals(ms[j].from, b.to_play)

\* C24: for a pawn not on the corresponding edge file, get_pawn_moves emits
\* a move to a forward-diagonal square that holds an enemy piece
\* (is_enpassant = false) and a move with is_enpassant = true to the one
\* that is the flagged en-passant target; it emits no diagonal move to a
\* square that is empty and not the target, and none across a rank edge.
C24_PawnDiagonalCaptures ==
    last.op = "get_pawn_moves" =>
        /\ last.ret.status = "ok"
        /\ DiagonalCaptures(last.before, last.ret.moves)

\* piece_map of board b is synchronized with its squares.
Synchronized(b) ==
    /\ DOMAIN b.piece_map = Kinds
    /\ \A k \in Kinds : \A i \in Idx :
          (b.squares[i].piece = k) <=> InTable(b, k, i)

\* The piece kinds the generator named op moves.
KindsServed(op, piece) ==
    CASE op = "get_king_moves" -> {"King"}
      [] op = "get_knight_moves" -> {"Knight"}
      [] op = "get_pawn_moves" -> {"Pawn"}
      [] op = "get_sliding_moves" -> {piece}
      [] op = "get_all_moves" -> {"King", "Queen", "Bishop", "Rook", "Knight"}

PieceGenOps == GenOps \ {"get_legal_moves"}

\* C25: on a board whose piece_map is synchronized with squares, every
\* MoveOp returned by get_king_moves, get_sliding_moves, get_knight_moves,
\* get_pawn_moves and get_all_moves starts on a square holding a piece of
\* the matching kind whose color is to_play.
C25_SideToMoveOnly ==
    (last.op \in PieceGenOps /\ Synchronized(last.before)) =>
        \A j \in 1 .. Len(last.ret.moves) :
            LET sq == last.before.squares[last.ret.moves[j].from]
            IN /\ sq.piece \in KindsServed(last.op, last.piece)
               /\ sq.color = last.before.to_play

\* A generator returned moves for Black on a synchronized board on which
\* White has pieces of the same kind.
C25_Witness ==
    /\ last.op = "get_pawn_moves"
    /\ Synchronized(last.before)
    /\ last.before.to_play = "Black"
    /\ Len(last.ret.moves) > 0
    /\ \E i \in Idx : last.before.squares[i] = [color |-> "White", piece |-> "Pawn"]

\* C26: after every apply_move, halfmove_clock = 0 implies result =
\* Draw50Moves; result leaves Active only in an apply_move that brings the
\* clock to 0; once result is Draw50Moves no apply_move returns it to
\* Active.
C26_FiftyMoveDraw ==
    Applied =>
        /\ game.halfmove_clock = 0 => game.result = "Draw50Moves"
        /\ (last.before.result = "Active" /\ game.result # "Active") =>
              game.halfmove_clock = 0
        /\ last.before.result = "Draw50Moves" => game.result = "Draw50Moves"

\* The last MoveOp moved a piece other than a pawn to an empty square.
QuietMove ==
    /\ MovedPiece \in Kinds \ {"Pawn"}
    /\ last.before.squares[last.moveop.to].piece = "Empty"
    /\ ~last.moveop.is_enpassant

\* C27: on every board reached by from_fen and apply_move calls the clock
\* is decremented only when it is above 0: a quiet move applied to a board
\* whose clock is 0 (the first move from the start notation, or a move
\* after the clock has run down) neither aborts apply_move nor leaves a
\* clock above the one it found.
C27_NoUnderflow ==
    (last.op = "apply_move" /\ QuietMove /\ last.before.halfmove_clock = 0) =>
        /\ status = "active"
        /\ game.halfmove_clock <= last.before.halfmove_clock

\* The rank a pawn of color c cannot advance from, and the rank before it.
FarRank(c) ==
    IF c = "White" THEN 0 .. Width - 1
    ELSE (Height - 1) * Width .. Height * Width - 1

NextToFarRank(c) ==
    IF c = "White" THEN Width .. 2 * Width - 1
    ELSE (Height - 2) * Width .. (Height - 1) * Width - 1

\* C28: get_pawn_moves reads and emits only square indices 0..63: the
\* call returns instead of aborting on a square outside the board, every
\* MoveOp it gives ends on the board, a pawn one rank from the far edge
\* gets no double advance and a pawn on the far rank gets no advance.
\* Calls for White in a debug build are left out: there the addition of
\* line 601 aborts before any square is read.
C28_PawnsStayOnBoard ==
    (/\ last.op = "get_pawn_moves"
     /\ build = "release" \/ last.before.to_play = "Black") =>
        /\ last.ret.status = "ok"
        /\ \A j \in 1 .. Len(last.ret.moves) :
              LET m == last.ret.moves[j]
              IN /\ m.to \in Idx
                 /\ m.from \in NextToFarRank(last.before.to_play)
                       => ~m.set_enpassant[1]
                 /\ m.from \notin FarRank(last.before.to_play)

\* C29: on the boards reached from the start position by applying
\* generated moves, no MoveOp returned by the king, sliding, knight and
\* pawn generators (and their concatenation in get_all_moves) ends on a
\* square occupied by a piece of the side to move.
C29_NoSelfCapture ==
    last.op \in GeneratorOps =>
        \A j \in 1 .. Len(last.ret.moves) :
            LET to == last.ret.moves[j].to
            IN to \in Idx =>
                  ~(/\ last.before.squares[to].piece # "Empty"
                    /\ last.before.squares[to].color = last.before.to_play)

\* The knight generator returned moves on a board one generated move after
\* the start position, on which a knight of the side to move stands a
\* knight's step from a piece of its own side.
C29_Witness ==
    /\ movesource = "generator" /\ ply >= 1
    /\ last.op = "get_knight_moves" /\ Len(last.ret.moves) > 0
    /\ \E i \in Idx : \E j \in 1 .. Len(knight_incs) :
          LET t == i + knight_incs[j]
              own == [color |-> last.before.to_play, piece |-> "Knight"]
          IN /\ last.before.squares[i] = own
             /\ t \in Idx
             /\ Abs((t % Width) - (i % Width)) <= 2
             /\ last.before.squares[t].piece # "Empty"
             /\ last.before.squares[t].color = last.before.to_play

====
